---- MODULE Spec2Model ----
(***************************************************************************)
(* Model of webbink.py (white dwarf mass-radius relation) and              *)
(* compton_cooling.py (accretion formulas and the module-level driver).    *)
(*                                                                         *)
(* A Python float v is the record [sgn |-> s, lg |-> l] with s in          *)
(* {-1, 0, 1} and, for v # 0, l = LogScale * log10(|v|) rounded by the     *)
(* fixed-point logarithm below.  The formulas work on positive floats, so  *)
(* they compute on lg alone: a product is a sum of lg, a quotient a        *)
(* difference, a power a multiple; sums and differences go through         *)
(* Exp10Q / Log10Q.  Dimensionless numbers used as exponents (temp1 of     *)
(* webbink.py, the literal exponents) are fixed-point integers scaled by   *)
(* ExpScale.                                                               *)
(*                                                                         *)
(* Python values are records tagged by kind: "num" (a float), "None",      *)
(* "raise" (an exception leaving the function).  Strings are sequences of  *)
(* one-letter strings.                                                     *)
(***************************************************************************)
EXTENDS Integers, Sequences, FiniteSets, TLC

\* pc: the driver statement to run next ("done": the module is imported)
\* n, ts, lrad, ur, ratio: the driver's module-level names
\* stdout: what the driver has printed; assigned: the names it has bound, in order
\* call: the last library call made by the importing program, with its outcome
\* npbuild: the exception the installed numpy raises for np.sqrt of a non-number
VARIABLES pc, n, ts, lrad, ur, ratio, stdout, assigned, call, npbuild

vars == <<pc, n, ts, lrad, ur, ratio, stdout, assigned, call, npbuild>>

(***************************************************************************)
(* Bounds of the model.                                                    *)
(***************************************************************************)
\* masses handed to the library run from -0.02 to MaxMass/100 solar masses
MaxMass == 146

(***************************************************************************)
(* Fixed-point arithmetic standing for IEEE doubles, math.log10, math.pow. *)
(***************************************************************************)
\* units of lg per decade
LogScale == 10000
\* units of a fixed-point exponent per 1.0
ExpScale == 10000
\* 1.0 in the Q14 mantissa used inside the logarithm
QOne == 16384
\* fractional bits of the binary logarithm
QBits == 14

\* floor(log2(k)) for 1 <= k < 2^17
FloorLog2(k) == CHOOSE e \in 0..16 : 2^e <= k /\ k < 2^(e + 1)

\* fractional bits of log2(y / QOne), QOne <= y < 2*QOne, by repeated squaring
RECURSIVE Log2Frac(_, _)
Log2Frac(y, i) ==
    IF i = 0 THEN 0
    ELSE LET sq == (y * y) \div QOne
         IN  IF sq >= 2 * QOne
             THEN 2^(i - 1) + Log2Frac(sq \div 2, i - 1)
             ELSE Log2Frac(sq, i - 1)

\* LogScale * log10(k), rounded, for an integer 1 <= k < 2^17: the binary
\* logarithm bit by bit, times log10(2) = 0.30103
Log10Calc(k) ==
    LET e == FloorLog2(k)
        f == Log2Frac((k * QOne) \div 2^e, QBits)
    IN  (e * 30103 + (f * 30103) \div QOne + (100000 \div LogScale) \div 2)
            \div (100000 \div LogScale)

\* the logarithms of the mantissas of the literals, computed once
Log10Tab == [k \in 1..2048 |-> Log10Calc(k)]

\* math.log10 of an integer 1 <= k < 2^17, scaled by LogScale
Log10Int(k) == IF k <= 2048 THEN Log10Tab[k] ELSE Log10Calc(k)

\* the logarithm of the Q14 unit, computed once
LgQOne == Log10Calc(QOne)

\* lg of q / QOne
Log10Q(q) == Log10Int(q) - LgQOne

\* 2^(-f / QOne) in Q14 for 0 <= f < QOne: the series of exp(-f ln 2) to the
\* fifth power of f, coefficients ln(2)^j / j! in Q14
Pow2Neg(f) ==
    LET h4 == 158 - (f * 22) \div QOne
        h3 == 909 - (f * h4) \div QOne
        h2 == 3936 - (f * h3) \div QOne
        h1 == 11357 - (f * h2) \div QOne
    IN  QOne - (f * h1) \div QOne

\* 10^(d / LogScale) in Q14, for d <= 0; 0 when below the Q14 resolution
Exp10Q(d) ==
    IF d >= 0 THEN QOne
    ELSE IF -d >= 5 * LogScale THEN 0
    ELSE LET t == ((-d) * 33219) \div 10000
             ip == t \div LogScale
             fp == ((t % LogScale) * QOne) \div LogScale
         IN  Pow2Neg(fp) \div 2^ip

Real(s, l) == [sgn |-> s, lg |-> l]
Zero == Real(0, 0)
Pos(l) == Real(1, l)

\* lg of the float literal m * 10^e, m a positive integer mantissa
Lg(m, e) == Log10Int(m) + e * LogScale

\* a * b, a / b and a ** e on the lg of positive floats; e is a fixed-point exponent
Mul(a, b) == a + b
Div(a, b) == a - b
Pow(a, e) == (a * e) \div ExpScale

\* lg of 1 + 10^(d / LogScale), d <= 0
Log1p(d) == Log10Q(QOne + Exp10Q(d))

\* a + b on the lg of positive floats
Add(a, b) == IF a >= b THEN a + Log1p(b - a) ELSE b + Log1p(a - b)

\* a - 1.0 on the lg of a float a > 1
Sub1(a) == a + Log10Q(QOne - Exp10Q(-a))

\* the float c / 100, c an integer (how masses and fractions are enumerated)
FromCenti(c) ==
    IF c = 0 THEN Zero
    ELSE Real(IF c > 0 THEN 1 ELSE -1,
              Log10Int(IF c > 0 THEN c ELSE -c) - 2 * LogScale)

(***************************************************************************)
(* Python values.                                                          *)
(***************************************************************************)
Num(v) == [kind |-> "num", val |-> v]
None == [kind |-> "None"]
Raise(e) == [kind |-> "raise", exc |-> e]
Unset == [kind |-> "unset"]

\* what a function call leaves behind: its value (or exception) and what it printed
Result(r, o) == [ret |-> r, out |-> o]

\* lg of np.exp(k) for an integer k: k * log10(e)
NpExp(k) == (k * 43429) \div (100000 \div LogScale)

\* lg of np.pi
NpPi == Lg(31416, -4)

\* a <= 0 and a > 1 as Python 2 evaluates them (None sorts below every number)
PyLe0(a) == IF a.kind = "num" THEN a.val.sgn <= 0 ELSE TRUE
\* variant: the upper bound of a fraction taken as exclusive (a >= 1)
PyGt1_ge(a) == IF a.kind = "num" THEN a.val.sgn = 1 /\ a.val.lg >= 0 ELSE FALSE
PyGt1(a) == IF a.kind = "num" THEN a.val.sgn = 1 /\ a.val.lg > 0 ELSE FALSE

UpperLetters == <<"A","B","C","D","E","F","G","H","I","J","K","L","M",
                  "N","O","P","Q","R","S","T","U","V","W","X","Y","Z">>
LowerLetters == <<"a","b","c","d","e","f","g","h","i","j","k","l","m",
                  "n","o","p","q","r","s","t","u","v","w","x","y","z">>

\* variant: no case folding
Lower_exact(s) == s

\* str.lower()
Lower(s) ==
    [i \in DOMAIN s |->
        IF \E j \in DOMAIN UpperLetters : UpperLetters[j] = s[i]
        THEN LowerLetters[CHOOSE j \in DOMAIN UpperLetters : UpperLetters[j] = s[i]]
        ELSE s[i]]

(***************************************************************************)
(* webbink.py                                                              *)
(***************************************************************************)
MassMsg == "White dwarf mass must be positive and less than 1.44 Msol"

\* lg of the literal 1.44
MassLimit == Lg(144, -2)

\* temp1 = 0.3767 - 0.00605*log10(x) as a fixed-point exponent; x is given by its lg
Temp1(x) == (3767 * ExpScale) \div 10000 - (605 * x * (ExpScale \div 10000)) \div (10 * LogScale)

\* lg of 7.7e8 * x^temp1 with x = 1.44/mass - 1.0, for the lg m of a mass in (0, 1.44)
WebbinkRadius(m) ==
    LET x == Sub1(Div(MassLimit, m))
    IN  Mul(Lg(77, 7), Pow(x, Temp1(x)))

\* variant: the lower bound of the mass taken as inclusive (mass < 0.0)
radius_lt(mass) ==
    IF mass.sgn < 0 THEN Result(None, <<MassMsg>>)
    ELSE IF mass.lg >= MassLimit THEN Result(None, <<MassMsg>>)
    ELSE Result(Num(Pos(WebbinkRadius(mass.lg))), <<>>)

radius(mass) ==
    IF mass.sgn <= 0 THEN Result(None, <<MassMsg>>)
    ELSE IF mass.lg >= MassLimit THEN Result(None, <<MassMsg>>)
    ELSE Result(Num(Pos(WebbinkRadius(mass.lg))), <<>>)

\* variant: the inline copy with another coefficient (7.8e8)
LoggRadius_drift(m) ==
    LET x == Sub1(Div(MassLimit, m))
    IN  Mul(Lg(78, 7), Pow(x, Temp1(x)))

\* lg of 7.7e8 * x^temp1 as logg computes it inline
LoggRadius(m) ==
    LET x == Sub1(Div(MassLimit, m))
    IN  Mul(Lg(77, 7), Pow(x, Temp1(x)))

\* math.log10(g) for g given by its lg: the float g / LogScale
Log10OfLg(g) ==
    IF g = 0 THEN Zero
    ELSE Real(IF g > 0 THEN 1 ELSE -1,
              Log10Int(IF g > 0 THEN g ELSE -g) - Log10Int(LogScale))

logg(mass) ==
    IF mass.sgn <= 0 THEN Result(None, <<MassMsg>>)
    ELSE IF mass.lg >= MassLimit THEN Result(None, <<MassMsg>>)
    ELSE LET rad == LoggRadius(mass.lg)
             gravConst == Lg(667, -10)
             solarMass == Lg(2, 33)
             g == Div(Mul(Mul(gravConst, mass.lg), solarMass), Pow(rad, 2 * ExpScale))
         IN  Result(Num(Log10OfLg(g)), <<>>)

(***************************************************************************)
(* compton_cooling.py: constants and formulas                              *)
(***************************************************************************)
MSOL == Lg(2, 33)
MU == Lg(63, -2)
MH == Lg(167, -26)
G == Lg(667, -10)
K == Lg(138, -18)
\* variant: the Kelvin to eV factor
KTOKEV_ev == Lg(86173, -9)
KTOKEV == Lg(86173, -12)
C == Lg(2, 10)
MDOTGS == Lg(634, 23)

UnitMsg == "Units must be Kelvin (K) or keV (keV).  Please check your units."
FradMsg == "frad must be between 0 and 1. Please check and try again."
FaccMsg == "facc should be between >0 and <= 1. Please check and try again."
ModeMsg == "mode must be thick or thin"

\* the default of tshock's unit parameter
tshock_unit_default == <<"K">>

\* lg of 3.0 * MU * MH * G * mwdg / (16.0 * K * rwd), mwdg = mwd * MSOL
ShockTemp(m, rwd) ==
    Div(Mul(Mul(Mul(Mul(Lg(3, 0), MU), MH), G), Mul(m, MSOL)),
        Mul(Mul(Lg(16, 0), K), rwd))

\* rwd = radius(mwd) is used in arithmetic unchecked: None there is a TypeError
tshock(mwd, unit) ==
    LET r == radius(mwd)
    IN  IF r.ret.kind # "num" THEN Result(Raise("TypeError"), r.out)
        ELSE IF Lower(unit) = <<"k">>
             THEN Result(Num(Pos(ShockTemp(mwd.lg, r.ret.val.lg))), r.out)
        ELSE IF Lower(unit) = <<"k", "e", "v">>
             THEN Result(Num(Pos(Mul(ShockTemp(mwd.lg, r.ret.val.lg), KTOKEV))), r.out)
        ELSE Result(None, r.out \o <<UnitMsg>>)

\* lg of lrad / (4.0 * np.pi * rwd ** 2.0 * frad * C)
RadDensity(l, rwd, f) ==
    Div(l, Mul(Mul(Mul(Mul(Lg(4, 0), NpPi), Pow(rwd, 2 * ExpScale)), f), C))

urad(lrad_, mwd, frad_) ==
    IF PyLe0(frad_) \/ PyGt1(frad_) THEN Result(None, <<FradMsg>>)
    ELSE LET r == radius(mwd)
         IN  IF r.ret.kind # "num" \/ lrad_.kind # "num"
             THEN Result(Raise("TypeError"), r.out)
             ELSE Result(Num(Pos(RadDensity(lrad_.val.lg, r.ret.val.lg, frad_.val.lg))),
                         r.out)

vkep(mwd) ==
    LET r == radius(mwd)
    IN  IF r.ret.kind # "num" THEN Result(Raise("TypeError"), r.out)
        ELSE Result(Num(Pos(Pow(Div(Mul(G, Mul(mwd.lg, MSOL)), r.ret.val.lg),
                                ExpScale \div 2))), r.out)

\* lg of mdot / (4 * np.pi * MU * MH * rwd ** 2 * facc * vacc) after
\* mdot = mdot * MDOTGS and vacc = vacc * 1e5
BlDensity(d, rwd, f, v) ==
    Div(Mul(d, MDOTGS),
        Mul(Mul(Mul(Mul(Mul(Mul(Lg(4, 0), NpPi), MU), MH), Pow(rwd, 2 * ExpScale)), f),
            Mul(v, Lg(1, 5))))

nebl(mdot_, mwd, facc_, vacc_) ==
    IF PyLe0(facc_) \/ PyGt1(facc_) THEN Result(None, <<FaccMsg>>)
    ELSE LET r == radius(mwd)
         IN  IF r.ret.kind # "num" THEN Result(Raise("TypeError"), r.out)
             ELSE Result(Num(Pos(BlDensity(mdot_, r.ret.val.lg, facc_.val.lg, vacc_))),
                         r.out)

\* lg of z in the "thick" branch; rwd is the lg of radius(mwd), m of mwd, d of mdot
ZThick(rwd, m, d) ==
    LET viscous == Mul(Mul(Lg(696, -6), Pow(Div(m, Lg(7, -1)), -((85 * ExpScale) \div 100))),
                       Pow(Div(Mul(d, MDOTGS), Lg(1, 18)), -((22 * ExpScale) \div 100)))
        radiative == Mul(Mul(Lg(729, -6), Pow(Div(m, Lg(7, -1)), (8 * ExpScale) \div 10)),
                         Div(Mul(d, MDOTGS), Lg(1, 18)))
    IN  Mul(Pow(Pow(rwd, ExpScale \div 2), 2 * ExpScale), Add(viscous, radiative))

\* lg of z in the "thin" branch
ZThin(m, d) ==
    Mul(Mul(Lg(385, 6), Pow(Div(m, Lg(7, -1)), ExpScale \div 10)),
        Pow(Div(Mul(d, MDOTGS), Lg(1, 15)), -(ExpScale \div 2)))

\* lg of z / 4 / radius(mwd)
ZOver4R(z, rwd) == Div(Div(z, Lg(4, 0)), rwd)

\* the default of facc's mode parameter
facc_mode_default == <<"t", "h", "i", "c", "k">>

\* "thick": np.sqrt(radius(mwd)) comes first, and np.sqrt(None) raises npexc.
\* "thin": (mwd/0.7) ** 0.1 comes first, a ValueError for a negative mwd; then
\* z / 4 / radius(mwd) is a TypeError when radius returns None.
facc(mwd, mdot_, mode_, npexc) ==
    IF Lower(mode_) = <<"t", "h", "i", "c", "k">>
    THEN LET r == radius(mwd)
         IN  IF r.ret.kind # "num" THEN Result(Raise(npexc), r.out)
             ELSE Result(Num(Pos(ZOver4R(ZThick(r.ret.val.lg, mwd.lg, mdot_),
                                         r.ret.val.lg))), r.out \o r.out)
    ELSE IF Lower(mode_) = <<"t", "h", "i", "n">>
    THEN IF mwd.sgn < 0 THEN Result(Raise("ValueError"), <<>>)
         ELSE LET r == radius(mwd)
              IN  IF r.ret.kind # "num" THEN Result(Raise("TypeError"), r.out)
                  ELSE Result(Num(Pos(ZOver4R(ZThin(mwd.lg, mdot_), r.ret.val.lg))), r.out)
    ELSE Result(None, <<ModeMsg>>)

\* lg of 7.5e-5 * nebl / (urad * tshock**0.5)
CoolRatio(a, b, c) == Div(Mul(Lg(75, -6), a), Mul(b, Pow(c, ExpScale \div 2)))

coolratio(nebl_, urad_, tshock_) ==
    IF nebl_.kind # "num" \/ urad_.kind # "num" \/ tshock_.kind # "num"
    THEN Result(Raise("TypeError"), <<>>)
    ELSE Result(Num(Pos(CoolRatio(nebl_.val.lg, urad_.val.lg, tshock_.val.lg))), <<>>)

(***************************************************************************)
(* compton_cooling.py: the module-level driver                             *)
(***************************************************************************)
mwd == Pos(Lg(13, -1))
mdot == Lg(3, -9)
mdotthick == Lg(1, -9)
frad == Num(Pos(Lg(1, 0)))
mode == <<"t", "h", "i", "n">>
vacc == Lg(2000, 0)

\* variant: the density left unscaled
TimesExpM5_none(x) == x

\* x * np.exp(-5) for the value x of a call
TimesExpM5(x) ==
    IF x.kind = "num" THEN Num(Pos(Mul(x.val.lg, NpExp(-5)))) ELSE Raise("TypeError")

\* G * mwd * MSOL * mdotthick * MDOTGS / radius(mwd), r the value of the call
AccretionLum(r) ==
    IF r.kind = "num"
    THEN Num(Pos(Div(Mul(Mul(Mul(Mul(G, mwd.lg), MSOL), mdotthick), MDOTGS), r.val.lg)))
    ELSE Raise("TypeError")

\* variant: the second assignment repeats the first
BlackbodyLum_first(r) == AccretionLum(r)

\* 4 * np.pi * radius(mwd)**2 * 5.67e-5 * 120000**4.0, r the value of the call
BlackbodyLum(r) ==
    IF r.kind = "num"
    THEN Num(Pos(Mul(Mul(Mul(Mul(Lg(4, 0), NpPi), Pow(r.val.lg, 2 * ExpScale)),
                         Lg(567, -7)),
                     Pow(Lg(12, 4), 4 * ExpScale))))
    ELSE Raise("TypeError")

\* diagnostics of a call, as lines of the driver's standard output
Lines(o) == [i \in DOMAIN o |-> [kind |-> "msg", text |-> o[i]]]

NpBuilds == {"TypeError", "AttributeError"}

Init ==
    /\ pc = "L94"
    /\ n = Unset /\ ts = Unset /\ lrad = Unset /\ ur = Unset /\ ratio = Unset
    /\ stdout = <<>>
    /\ assigned = <<>>
    /\ call = [fn |-> "none"]
    /\ npbuild \in NpBuilds

\* n = nebl(mdot, mwd, facc(mwd, mdot, mode=mode), vacc) * np.exp(-5)
L94 ==
    /\ pc = "L94"
    /\ LET fa == facc(mwd, mdot, mode, npbuild)
           nb == nebl(mdot, mwd, fa.ret, vacc)
       IN  /\ n' = TimesExpM5(nb.ret)
           /\ stdout' = stdout \o Lines(fa.out) \o Lines(nb.out)
    /\ assigned' = Append(assigned, "n")
    /\ pc' = "L95"
    /\ UNCHANGED <<ts, lrad, ur, ratio, call, npbuild>>

\* ts = tshock(mwd)
L95 ==
    /\ pc = "L95"
    /\ LET t == tshock(mwd, tshock_unit_default)
       IN  /\ ts' = t.ret
           /\ stdout' = stdout \o Lines(t.out)
    /\ assigned' = Append(assigned, "ts")
    /\ pc' = "L96"
    /\ UNCHANGED <<n, lrad, ur, ratio, call, npbuild>>

\* lrad = G * mwd * MSOL * mdotthick * MDOTGS / radius(mwd)
L96 ==
    /\ pc = "L96"
    /\ LET r == radius(mwd)
       IN  /\ lrad' = AccretionLum(r.ret)
           /\ stdout' = stdout \o Lines(r.out)
    /\ assigned' = Append(assigned, "lrad")
    /\ pc' = "L97"
    /\ UNCHANGED <<n, ts, ur, ratio, call, npbuild>>

\* lrad = 4 * np.pi * radius(mwd)**2 * 5.67e-5 * 120000**4.0
L97 ==
    /\ pc = "L97"
    /\ LET r == radius(mwd)
       IN  /\ lrad' = BlackbodyLum(r.ret)
           /\ stdout' = stdout \o Lines(r.out)
    /\ assigned' = Append(assigned, "lrad")
    /\ pc' = "L98"
    /\ UNCHANGED <<n, ts, ur, ratio, call, npbuild>>

\* print(lrad)
L98 ==
    /\ pc = "L98"
    /\ stdout' = Append(stdout, lrad)
    /\ pc' = "L99"
    /\ UNCHANGED <<n, ts, lrad, ur, ratio, assigned, call, npbuild>>

\* ur = urad(lrad, mwd, frad)
L99 ==
    /\ pc = "L99"
    /\ LET u == urad(lrad, mwd, frad)
       IN  /\ ur' = u.ret
           /\ stdout' = stdout \o Lines(u.out)
    /\ assigned' = Append(assigned, "ur")
    /\ pc' = "L100"
    /\ UNCHANGED <<n, ts, lrad, ratio, call, npbuild>>

\* ratio = coolratio(n, ur, ts)
L100 ==
    /\ pc = "L100"
    /\ ratio' = coolratio(n, ur, ts).ret
    /\ assigned' = Append(assigned, "ratio")
    /\ pc' = "L101"
    /\ UNCHANGED <<n, ts, lrad, ur, stdout, call, npbuild>>

\* print(ratio)
L101 ==
    /\ pc = "L101"
    /\ stdout' = Append(stdout, ratio)
    /\ pc' = "done"
    /\ UNCHANGED <<n, ts, lrad, ur, ratio, assigned, call, npbuild>>

(***************************************************************************)
(* Library calls made by the program that imported compton_cooling (and    *)
(* webbink), with arguments drawn from the sets below.                     *)
(***************************************************************************)
\* masses in hundredths of a solar mass
MassVals == (-2)..MaxMass
\* fractions in hundredths
FracVals == {-50, 0, 1, 50, 100, 101, 150}
\* accretion rates, luminosities and velocities as <<mantissa, decimal exponent>>
MdotVals == {<<1, -12>>, <<3, -9>>, <<1, -5>>}
LradVals == {<<1, 35>>}
VaccVals == {<<2000, 0>>}
UnitVals == {<<"K">>, <<"k">>, <<"k", "e", "V">>, <<"K", "E", "V">>, <<"k", "e", "v">>,
             <<"C">>, <<>>, <<"k", "e">>, <<"k", "e", "l", "v", "i", "n">>}
ModeVals == {<<"t", "h", "i", "c", "k">>, <<"T", "H", "I", "C", "K">>,
             <<"T", "h", "i", "c", "k">>, <<"t", "h", "i", "n">>,
             <<"T", "H", "I", "N">>, <<"t", "h", "I", "n">>,
             <<"b", "o", "g", "u", "s">>, <<>>, <<"t", "h", "i">>}
CoolVals == {<<1, 8>>, <<1, 16>>}

\* lg of an enumerated positive float
Arg(p) == Lg(p[1], p[2])

CallRadius ==
    /\ pc = "done" /\ call.fn = "none"
    /\ \E m \in MassVals :
         LET r == radius(FromCenti(m))
         IN  call' = [fn |-> "radius", m |-> m, ret |-> r.ret, out |-> r.out]
    /\ UNCHANGED <<pc, n, ts, lrad, ur, ratio, stdout, assigned, npbuild>>

CallLogg ==
    /\ pc = "done" /\ call.fn = "none"
    /\ \E m \in MassVals :
         LET r == logg(FromCenti(m))
         IN  call' = [fn |-> "logg", m |-> m, ret |-> r.ret, out |-> r.out]
    /\ UNCHANGED <<pc, n, ts, lrad, ur, ratio, stdout, assigned, npbuild>>

\* tshock(mwd, unit)
CallTshock ==
    /\ pc = "done" /\ call.fn = "none"
    /\ \E m \in MassVals, u \in UnitVals :
         LET r == tshock(FromCenti(m), u)
         IN  call' = [fn |-> "tshock", m |-> m, unit |-> u, given |-> TRUE,
                      ret |-> r.ret, out |-> r.out]
    /\ UNCHANGED <<pc, n, ts, lrad, ur, ratio, stdout, assigned, npbuild>>

\* tshock(mwd), the unit left to its default
CallTshockDefault ==
    /\ pc = "done" /\ call.fn = "none"
    /\ \E m \in MassVals :
         LET r == tshock(FromCenti(m), tshock_unit_default)
         IN  call' = [fn |-> "tshock", m |-> m, unit |-> <<>>, given |-> FALSE,
                      ret |-> r.ret, out |-> r.out]
    /\ UNCHANGED <<pc, n, ts, lrad, ur, ratio, stdout, assigned, npbuild>>

CallUrad ==
    /\ pc = "done" /\ call.fn = "none"
    /\ \E l \in LradVals, m \in MassVals, f \in FracVals :
         LET r == urad(Num(Pos(Arg(l))), FromCenti(m), Num(FromCenti(f)))
         IN  call' = [fn |-> "urad", lrad |-> l, m |-> m, f |-> f,
                      ret |-> r.ret, out |-> r.out]
    /\ UNCHANGED <<pc, n, ts, lrad, ur, ratio, stdout, assigned, npbuild>>

CallVkep ==
    /\ pc = "done" /\ call.fn = "none"
    /\ \E m \in MassVals :
         LET r == vkep(FromCenti(m))
         IN  call' = [fn |-> "vkep", m |-> m, ret |-> r.ret, out |-> r.out]
    /\ UNCHANGED <<pc, n, ts, lrad, ur, ratio, stdout, assigned, npbuild>>

CallNebl ==
    /\ pc = "done" /\ call.fn = "none"
    /\ \E d \in MdotVals, m \in MassVals, f \in FracVals, v \in VaccVals :
         LET r == nebl(Arg(d), FromCenti(m), Num(FromCenti(f)), Arg(v))
         IN  call' = [fn |-> "nebl", mdot |-> d, m |-> m, f |-> f, vacc |-> v,
                      ret |-> r.ret, out |-> r.out]
    /\ UNCHANGED <<pc, n, ts, lrad, ur, ratio, stdout, assigned, npbuild>>

\* facc(mwd, mdot, mode)
CallFacc ==
    /\ pc = "done" /\ call.fn = "none"
    /\ \E m \in MassVals, d \in MdotVals, o \in ModeVals :
         LET r == facc(FromCenti(m), Arg(d), o, npbuild)
         IN  call' = [fn |-> "facc", m |-> m, mdot |-> d, mode |-> o, given |-> TRUE,
                      ret |-> r.ret, out |-> r.out]
    /\ UNCHANGED <<pc, n, ts, lrad, ur, ratio, stdout, assigned, npbuild>>

\* facc(mwd, mdot), the mode left to its default
CallFaccDefault ==
    /\ pc = "done" /\ call.fn = "none"
    /\ \E m \in MassVals, d \in MdotVals :
         LET r == facc(FromCenti(m), Arg(d), facc_mode_default, npbuild)
         IN  call' = [fn |-> "facc", m |-> m, mdot |-> d, mode |-> <<>>, given |-> FALSE,
                      ret |-> r.ret, out |-> r.out]
    /\ UNCHANGED <<pc, n, ts, lrad, ur, ratio, stdout, assigned, npbuild>>

CallCoolratio ==
    /\ pc = "done" /\ call.fn = "none"
    /\ \E a \in CoolVals, b \in CoolVals, c \in CoolVals :
         LET r == coolratio(Num(Pos(Arg(a))), Num(Pos(Arg(b))), Num(Pos(Arg(c))))
         IN  call' = [fn |-> "coolratio", nebl |-> a, urad |-> b, tshock |-> c,
                      ret |-> r.ret, out |-> r.out]
    /\ UNCHANGED <<pc, n, ts, lrad, ur, ratio, stdout, assigned, npbuild>>

\* the caller has consumed the outcome of its call and is ready for the next
Return ==
    /\ pc = "done" /\ call.fn # "none"
    /\ call' = [fn |-> "none"]
    /\ UNCHANGED <<pc, n, ts, lrad, ur, ratio, stdout, assigned, npbuild>>

Next ==
    \/ L94 \/ L95 \/ L96 \/ L97 \/ L98 \/ L99 \/ L100 \/ L101
    \/ CallRadius \/ CallLogg \/ CallTshock \/ CallTshockDefault \/ CallUrad
    \/ CallVkep \/ CallNebl \/ CallFacc \/ CallFaccDefault \/ CallCoolratio
    \/ Return

Spec == Init /\ [][Next]_vars

(***************************************************************************)
(* Properties.  Masses and fractions of a call are recorded in hundredths, *)
(* so 144 is the mass 1.44 and 100 the fraction 1.                         *)
(***************************************************************************)
ValidMass(m) == 0 < m /\ m < 144
ValidFrac(f) == 0 < f /\ f <= 100

\* s spells the word lo (its capitals up) in some mix of letter cases
Spells(s, lo, up) ==
    /\ Len(s) = Len(lo)
    /\ \A i \in 1..Len(lo) : s[i] = lo[i] \/ s[i] = up[i]

IsKelvin(u) == Spells(u, <<"k">>, <<"K">>)
IsKeV(u) == Spells(u, <<"k", "e", "v">>, <<"K", "E", "V">>)
IsThick(o) == Spells(o, <<"t", "h", "i", "c", "k">>, <<"T", "H", "I", "C", "K">>)
IsThin(o) == Spells(o, <<"t", "h", "i", "n">>, <<"T", "H", "I", "N">>)

IsPrefix(s, t) == Len(s) <= Len(t) /\ \A i \in 1..Len(s) : s[i] = t[i]

\* C1: radius(mass) prints the domain message and returns None for every
\* mass <= 0 and every mass >= 1.44, and returns a positive number for every
\* mass in (0, 1.44).
C1_RadiusDomain ==
    call.fn = "radius" =>
        /\ (call.m <= 0 \/ call.m >= 144) =>
               (call.ret = None /\ call.out = <<MassMsg>>)
        /\ ValidMass(call.m) =>
               (call.ret.kind = "num" /\ call.ret.val.sgn = 1 /\ call.out = <<>>)

C1_Witness == call.fn = "radius" /\ call.m = 144 /\ call.ret = None

\* C2: for a mass outside (0, 1.44) and otherwise valid arguments, each of
\* tshock, urad, vkep, nebl, facc ends by returning None to its caller, never
\* by an exception.
C2_NoDomainViolationFatal ==
    (/\ call.fn \in {"tshock", "urad", "vkep", "nebl", "facc"}
     /\ ~ValidMass(call.m)
     /\ call.fn = "tshock" => (~call.given \/ IsKelvin(call.unit) \/ IsKeV(call.unit))
     /\ call.fn \in {"urad", "nebl"} => ValidFrac(call.f)
     /\ call.fn = "facc" => (~call.given \/ IsThick(call.mode) \/ IsThin(call.mode)))
    => call.ret = None

\* C3: for every unit that is neither "K" nor "keV" in any letter case, and
\* for every mass, tshock reports the invalid unit and returns None.
C3_UnitCheckedFirst ==
    (call.fn = "tshock" /\ call.given /\ ~IsKelvin(call.unit) /\ ~IsKeV(call.unit))
    => (call.ret = None /\ \E i \in DOMAIN call.out : call.out[i] = UnitMsg)

\* C4: urad and nebl return a number only for a fraction in (0, 1]; for f <= 0
\* and f > 1 they print only the fraction message and return None, whatever
\* the mass; f = 1 with a valid mass gives a number.
C4_FractionGuard ==
    call.fn \in {"urad", "nebl"} =>
        /\ ~ValidFrac(call.f) =>
               /\ call.ret = None
               /\ call.out = <<IF call.fn = "urad" THEN FradMsg ELSE FaccMsg>>
        /\ call.ret.kind = "num" => ValidFrac(call.f)
        /\ (call.f = 100 /\ ValidMass(call.m)) => call.ret.kind = "num"

C4_Witness ==
    call.fn = "urad" /\ call.f = 150 /\ call.m >= 144 /\ call.ret = None

\* C5: every number facc returns lies in (0, 1].
C5_FaccInUnitInterval ==
    (call.fn = "facc" /\ call.ret.kind = "num")
    => (call.ret.val.sgn = 1 /\ call.ret.val.lg <= 0)

\* C6: facc called with "thick" or "thin" in any letter case and a valid mass
\* returns z / (4 * radius(mass)) for that mode's z; called with any other mode
\* it prints the mode message and returns None, for every mass and rate.
C6_ModeSelection ==
    (call.fn = "facc" /\ call.given) =>
        LET m == FromCenti(call.m)
            d == Arg(call.mdot)
            r == radius(m).ret.val.lg
        IN  /\ (IsThick(call.mode) /\ ValidMass(call.m)) =>
                   call.ret = Num(Pos(Div(ZThick(r, m.lg, d), Mul(Lg(4, 0), r))))
            /\ (IsThin(call.mode) /\ ValidMass(call.m)) =>
                   call.ret = Num(Pos(Div(ZThin(m.lg, d), Mul(Lg(4, 0), r))))
            /\ (~IsThick(call.mode) /\ ~IsThin(call.mode)) =>
                   (call.ret = None /\ call.out = <<ModeMsg>>)

C6_Witness ==
    /\ call.fn = "facc" /\ call.given
    /\ call.mode = <<"T", "H", "I", "N">>
    /\ call.ret.kind = "num"

\* C7: for a mass in (0, 1.44), tshock(mass, "keV") is tshock(mass, "K") times
\* 8.6173e-8, and tshock(mass) is tshock(mass, "K").
C7_UnitConversion ==
    (call.fn = "tshock" /\ ValidMass(call.m)) =>
        LET kelvin == tshock(FromCenti(call.m), <<"K">>).ret
        IN  /\ (call.given /\ IsKeV(call.unit)) =>
                   call.ret = Num(Pos(Mul(kelvin.val.lg, Lg(86173, -12))))
            /\ ~call.given => call.ret = kelvin

C7_Witness ==
    /\ call.fn = "tshock" /\ call.given
    /\ call.unit = <<"k", "e", "V">> /\ call.m = 130
    /\ call.ret.kind = "num"

\* the driver's formulas on its fixed parameters, composed with nothing between
DriverFacc == facc(mwd, mdot, <<"t", "h", "i", "n">>, npbuild).ret
DriverNebl == nebl(mdot, mwd, DriverFacc, vacc).ret
DriverTshock == tshock(mwd, <<"K">>).ret
DriverBlackbody ==
    Num(Pos(Mul(Mul(Mul(Mul(Lg(4, 0), NpPi), Mul(radius(mwd).ret.val.lg,
                                                  radius(mwd).ret.val.lg)),
                    Lg(567, -7)),
                Mul(Mul(Lg(12, 4), Lg(12, 4)), Mul(Lg(12, 4), Lg(12, 4))))))
DriverUrad == urad(DriverBlackbody, mwd, frad).ret

\* C8 as stated: the reported ratio is coolratio(n, u, T) with n the value of
\* nebl, T of tshock and u of urad, no further factor applied.
C8_PlainComposition ==
    pc = "done" =>
        /\ ratio = coolratio(DriverNebl, DriverUrad, DriverTshock).ret
        /\ stdout[Len(stdout)] = ratio

\* C8 amended: the reported ratio is coolratio(n, u, T) with n the value of nebl
\* times exp(-5), T of tshock and u of urad, no further factor applied to u or T.
C8_ScaledComposition ==
    pc = "done" =>
        /\ ratio = coolratio(Num(Pos(Mul(DriverNebl.val.lg, NpExp(-5)))),
                             DriverUrad, DriverTshock).ret
        /\ stdout[Len(stdout)] = ratio

C8_Witness == pc = "done" /\ ratio.kind = "num" /\ Len(stdout) = 2

\* C9: logg(mass) returns None exactly when radius(mass) does, and for a mass in
\* (0, 1.44) it is log10(G * mass * Msun / radius(mass)^2) with G = 6.67e-8 and
\* Msun = 2e33.
C9_LoggUsesRadius ==
    call.fn = "logg" =>
        LET m == FromCenti(call.m)
            r == radius(m).ret
        IN  /\ (call.ret = None) <=> (r = None)
            /\ ValidMass(call.m) =>
                   call.ret = Num(Log10OfLg(Div(Mul(Mul(Lg(667, -10), m.lg), Lg(2, 33)),
                                                Mul(r.val.lg, r.val.lg))))

C9_Witness == call.fn = "logg" /\ call.m = 70 /\ call.ret.kind = "num"

\* C10: the driver binds n, ts, lrad, lrad, ur, ratio in this order, each once
\* but lrad; what it prints first and passes to urad is the blackbody
\* luminosity, never the accretion luminosity of the first assignment.
C10_DriverOrder ==
    /\ IsPrefix(assigned, <<"n", "ts", "lrad", "lrad", "ur", "ratio">>)
    /\ Len(stdout) >= 1 =>
           (stdout[1] = DriverBlackbody /\ stdout[1] # AccretionLum(radius(mwd).ret))
    /\ ur # Unset => ur = DriverUrad
    /\ Len(stdout) = 2 => (stdout[2] = ratio /\ ratio # Unset)
    /\ Len(stdout) <= 2
    /\ pc = "done" => Len(stdout) = 2

C10_Witness == pc = "done" /\ Len(stdout) = 2 /\ ur.kind = "num" /\ Len(assigned) = 6
====
